---- MODULE Spec2Model ----
(***************************************************************************)
(* Graph construction pipeline of project-constellai.                      *)
(*                                                                         *)
(*   backend/main.py             preprocess_wiki_data (GraphPreprocessor)  *)
(*   wikipedia/entity_classifier.py   is_entity / classify_batch           *)
(*                                                                         *)
(*   wikipedia/entity_classifier.py   generate_title_embeddings, the       *)
(*                                    notebook cells building the tables   *)
(*   backend/main.py             module-level Wikipedia load and endpoints *)
(*                                                                         *)
(* One specification per component: SpecPre drives the graph preprocessor  *)
(* over bounded (nodes, edges) tables, SpecEnt one batch of the entity     *)
(* classifier against an arbitrary service, SpecEmb one call of the        *)
(* embedding generator, SpecPipe the cells of the construction pipeline    *)
(* and SpecSrv the start-up and the endpoints of the server.               *)
(***************************************************************************)
EXTENDS Integers, Sequences, FiniteSets, TLC

(***************************************************************************)
(* Bounds of the model.                                                    *)
(***************************************************************************)
MaxNodes == 2
MaxEdges == 2
MaxBatch == 2
MaxItems == 2
MaxTitles == 45
MaxLinks == 2
MaxCandidates == 12

(***************************************************************************)
(* Values of the tables.  None is Python's None (a null of a daft column). *)
(* IdOrder is the lexicographic order of the id strings, which is the      *)
(* order sorted() uses on two str values.                                  *)
(***************************************************************************)
None == "<None>"
IdOrder == <<"A", "B", "C">>
NodeIds == {"A", "B"}
EdgeIds == {"A", "B", "C", None}
NodeAttrs == {<<"s1", "t1">>, <<"s2", "t2">>}
Similarities == {5, 7}

NodeRows ==
    {[id |-> i, summary |-> a[1], text |-> a[2]] : i \in NodeIds, a \in NodeAttrs}
EdgeRows == [source : EdgeIds, target : EdgeIds, similarity : Similarities]

SeqsUpTo(S, n) == UNION {[1..k -> S] : k \in 0..n}

VARIABLES
    nodes_df,       \* preprocess_wiki_data: the nodes table it is given
    edges_df,       \* preprocess_wiki_data: the edges table it is given
    out_nodes,      \* the nodes table of the returned pair
    out_edges,      \* the edges table of the returned pair
    fell_back,      \* the except branch produced the returned pair
    pre_pc,         \* "input" | "once" | "twice" : applications so far
    titles_list,    \* is_entity: the batch, title.to_pylist()
    remaining_titles, \* is_entity: the pending titles
    results_dict,   \* is_entity: map of title to flag
    retry_count,    \* is_entity: retry counter of the while loop
    result,         \* is_entity: the returned list
    ent_pc,         \* "idle" | "loop" | "sleep" | "done" | "raised"
    calls,          \* number of classify_batch calls issued for the batch
    sleeps,         \* number of time.sleep(1) waits of the batch
    last_kind,      \* kind of the service response of the latest call
    service_flags,  \* title -> the flag the service returned for it last
    last_request    \* the titles handed to the latest classify_batch call

VARIABLES
    emb_titles,     \* generate_title_embeddings: titles = title.to_pylist()
    embeddings,     \* generate_title_embeddings: the list built so far
    emb_i,          \* loop variable i of range(0, len(titles), batch_size)
    emb_result,     \* the returned list
    emb_pc,         \* "idle" | "loop" | "done"
    emb_requests,   \* offsets of the sub-batches requested, in call order
    emb_failed,     \* offsets of the sub-batches whose call raised
    emb_pauses      \* number of time.sleep(0.1) pauses

VARIABLES
    corpus,         \* the articles with their is_entity column (line 147)
    df,             \* the notebook's df, cell after cell
    df_with_text,   \* the notebook's df_with_text
    df_exploded,    \* the notebook's df_exploded
    neighbors_df,   \* the notebook's neighbors_df
    wikipedia_nodes, \* rows written to wikipedia_nodes.parquet
    wikipedia_edges, \* rows written to wikipedia_edges.parquet
    pipe_pc         \* the next cell to run, "idle" or "written"

VARIABLES
    wiki_nodes_exists,  \* os.path.exists(wiki_nodes_path)
    wiki_edges_exists,  \* os.path.exists(wiki_edges_path)
    nodes_parquet,      \* the rows stored at wiki_nodes_path
    edges_parquet,      \* the rows stored at wiki_edges_path
    nodes_has_text,     \* the nodes file has its "text" column
    edges_has_source,   \* the edges file has its "source" column
    wiki_nodes_df,      \* the module-level wiki_nodes_df, a Table or NoneTable
    wiki_edges_df,      \* the module-level wiki_edges_df, a Table or NoneTable
    load_fell_back,     \* preprocess_wiki_data took its except branch at load
    nodes_response,     \* the latest answer of GET /wikipedia/nodes
    edges_response,     \* the latest answer of GET /wikipedia/edges
    srv_pc              \* "idle" | "start" | "up"

VARIABLES
    w_titles_list,      \* per worker: titles_list of its is_entity call
    w_remaining_titles, \* per worker: remaining_titles
    w_results_dict,     \* per worker: results_dict
    w_retry_count,      \* per worker: retry_count
    w_result,           \* per worker: the returned list
    w_pc,               \* per worker: "idle" | "loop" | "done"
    w_responses         \* per worker: the service responses it got, in order

pre_vars == <<nodes_df, edges_df, out_nodes, out_edges, fell_back, pre_pc>>

emb_vars == <<emb_titles, embeddings, emb_i, emb_result, emb_pc, emb_requests,
              emb_failed, emb_pauses>>

pipe_vars == <<corpus, df, df_with_text, df_exploded, neighbors_df,
               wikipedia_nodes, wikipedia_edges, pipe_pc>>

srv_vars == <<wiki_nodes_exists, wiki_edges_exists, nodes_parquet, edges_parquet,
              nodes_has_text, edges_has_source,
              wiki_nodes_df, wiki_edges_df, load_fell_back, nodes_response,
              edges_response, srv_pc>>

wrk_vars == <<w_titles_list, w_remaining_titles, w_results_dict, w_retry_count,
              w_result, w_pc, w_responses>>

other_vars == <<emb_vars, pipe_vars, srv_vars, wrk_vars>>

EmbIdle ==
    /\ emb_titles = <<>>
    /\ embeddings = <<>>
    /\ emb_i = 0
    /\ emb_result = <<>>
    /\ emb_pc = "idle"
    /\ emb_requests = <<>>
    /\ emb_failed = {}
    /\ emb_pauses = 0

PipeIdle ==
    /\ corpus = <<>>
    /\ df = <<>>
    /\ df_with_text = <<>>
    /\ df_exploded = <<>>
    /\ neighbors_df = <<>>
    /\ wikipedia_nodes = <<>>
    /\ wikipedia_edges = <<>>
    /\ pipe_pc = "idle"

NoneTable == [is_none |-> TRUE, complete |-> TRUE, rows |-> <<>>]

Table(rows, complete) == [is_none |-> FALSE, complete |-> complete, rows |-> rows]

NoResponse == [status |-> "none", rows |-> <<>>]

SrvIdle ==
    /\ wiki_nodes_exists = FALSE
    /\ wiki_edges_exists = FALSE
    /\ nodes_parquet = <<>>
    /\ edges_parquet = <<>>
    /\ nodes_has_text = TRUE
    /\ edges_has_source = TRUE
    /\ wiki_nodes_df = NoneTable
    /\ wiki_edges_df = NoneTable
    /\ load_fell_back = FALSE
    /\ nodes_response = NoResponse
    /\ edges_response = NoResponse
    /\ srv_pc = "idle"

concurrency == 4

Workers == 1..concurrency

WrkIdle ==
    /\ w_titles_list = [w \in Workers |-> <<>>]
    /\ w_remaining_titles = [w \in Workers |-> <<>>]
    /\ w_results_dict = [w \in Workers |-> <<>>]
    /\ w_retry_count = [w \in Workers |-> 0]
    /\ w_result = [w \in Workers |-> <<>>]
    /\ w_pc = [w \in Workers |-> "idle"]
    /\ w_responses = [w \in Workers |-> <<>>]

OthersIdle == EmbIdle /\ PipeIdle /\ SrvIdle /\ WrkIdle

(***************************************************************************)
(* preprocess_wiki_data, step 1: the dict unique_nodes after the first i   *)
(* rows of the nodes table, as the sequence of its items in insertion      *)
(* order.                                                                  *)
(***************************************************************************)
HasId(rows, id) == \E k \in 1..Len(rows) : rows[k].id = id

RECURSIVE unique_nodes_last(_, _)
unique_nodes_last(nodes, i) ==
    IF i = 0 THEN <<>>
    ELSE LET prev == unique_nodes_last(nodes, i - 1)
         IN  IF HasId(prev, nodes[i].id)
             THEN [k \in 1..Len(prev) |->
                     IF prev[k].id = nodes[i].id THEN nodes[i] ELSE prev[k]]
             ELSE Append(prev, nodes[i])

RECURSIVE unique_nodes(_, _)
unique_nodes(nodes, i) ==
    IF i = 0 THEN <<>>
    ELSE LET prev == unique_nodes(nodes, i - 1)
         IN  IF HasId(prev, nodes[i].id) THEN prev ELSE Append(prev, nodes[i])

(***************************************************************************)
(* tuple(sorted([source, target])).  sorted() compares the two values     *)
(* with <, which raises TypeError as soon as one of them is None; the      *)
(* caller tests sortable first.                                            *)
(***************************************************************************)
Rank(id) == CHOOSE k \in 1..Len(IdOrder) : IdOrder[k] = id

sortable(source, target) == source /= None /\ target /= None

edge_key_directed(source, target) == <<source, target>>

edge_key(source, target) ==
    IF Rank(source) <= Rank(target) THEN <<source, target>> ELSE <<target, source>>

(***************************************************************************)
(* Steps 2 and 3: the loop over the edge rows, after i rows.               *)
(*   rows   processed_edges, as a sequence of rows                         *)
(*   seen   seen_edges                                                     *)
(*   raised an exception left the loop                                     *)
(***************************************************************************)
is_self_loop_never(e) == FALSE

is_self_loop(e) == e.source = e.target

kept_row_swapped(e) ==
    [source |-> e.target, target |-> e.source, similarity |-> e.similarity]

kept_row_reweighted(e) ==
    [source |-> e.source, target |-> e.target, similarity |-> 0]

kept_row(e) ==
    [source |-> e.source, target |-> e.target, similarity |-> e.similarity]

RECURSIVE process_edges_keep_last(_, _)
process_edges_keep_last(edges, i) ==
    IF i = 0 THEN [rows |-> <<>>, seen |-> {}, raised |-> FALSE]
    ELSE LET prev == process_edges_keep_last(edges, i - 1)
             e == edges[i]
         IN  IF prev.raised THEN prev
             ELSE IF is_self_loop(e) THEN prev
             ELSE IF ~sortable(e.source, e.target)
                  THEN [prev EXCEPT !.raised = TRUE]
             ELSE IF edge_key(e.source, e.target) \in prev.seen
                  THEN [prev EXCEPT !.rows =
                          [k \in 1..Len(prev.rows) |->
                              IF edge_key(prev.rows[k].source, prev.rows[k].target)
                                   = edge_key(e.source, e.target)
                              THEN kept_row(e) ELSE prev.rows[k]]]
             ELSE [rows |-> Append(prev.rows, kept_row(e)),
                   seen |-> prev.seen \cup {edge_key(e.source, e.target)},
                   raised |-> FALSE]

RECURSIVE process_edges(_, _)
process_edges(edges, i) ==
    IF i = 0 THEN [rows |-> <<>>, seen |-> {}, raised |-> FALSE]
    ELSE LET prev == process_edges(edges, i - 1)
             e == edges[i]
         IN  IF prev.raised THEN prev
             ELSE IF is_self_loop(e) THEN prev
             ELSE IF ~sortable(e.source, e.target)
                  THEN [prev EXCEPT !.raised = TRUE]
             ELSE IF edge_key(e.source, e.target) \in prev.seen THEN prev
             ELSE [rows |-> Append(prev.rows, kept_row(e)),
                   seen |-> prev.seen \cup {edge_key(e.source, e.target)},
                   raised |-> FALSE]

(***************************************************************************)
(* Step 4: connected_nodes of the processed edges, and the island filter   *)
(* over unique_nodes.items().                                              *)
(***************************************************************************)
connected_nodes(rows) ==
    {rows[k].source : k \in 1..Len(rows)} \cup {rows[k].target : k \in 1..Len(rows)}

final_nodes_all(unique, connected) == unique

final_nodes(unique, connected) ==
    SelectSeq(unique, LAMBDA n : n.id \in connected)

(***************************************************************************)
(* preprocess_wiki_data(nodes_df, edges_df): the returned pair, and        *)
(* whether the except branch returned it.                                  *)
(***************************************************************************)
preprocess_wiki_data_partial(nodes, edges) ==
    LET unique == unique_nodes(nodes, Len(nodes))
        pe == process_edges(edges, Len(edges))
    IN  IF pe.raised
        THEN [nodes |-> unique, edges |-> pe.rows, fallback |-> TRUE]
        ELSE [nodes |-> final_nodes(unique, connected_nodes(pe.rows)),
              edges |-> pe.rows,
              fallback |-> FALSE]

preprocess_wiki_data(nodes, edges) ==
    LET unique == unique_nodes(nodes, Len(nodes))
        pe == process_edges(edges, Len(edges))
    IN  IF pe.raised
        THEN [nodes |-> nodes, edges |-> edges, fallback |-> TRUE]
        ELSE [nodes |-> final_nodes(unique, connected_nodes(pe.rows)),
              edges |-> pe.rows,
              fallback |-> FALSE]

(***************************************************************************)
(* is_entity (entity_classifier.py).  A service response is what one       *)
(* client.responses.create call produces:                                  *)
(*   kind "ok"         the text holds a JSON array of {title, is_entity}   *)
(*        "api_error"  the call or the stream raises                       *)
(*        "bad_json"   json.loads raises on the extracted text             *)
(*        "bad_item"   the array holds an element without the two keys     *)
(*   items             the (title, is_entity) objects of the payload       *)
(***************************************************************************)
max_retries_more == 3 + 1

max_retries == 3

BatchTitles == {"Obama", "Physics"}
ServiceTitles == {"Obama", "Physics", "Zebra"}
Kinds == {"ok", "api_error", "bad_json", "bad_item"}
Items == [title : ServiceTitles, is_entity : BOOLEAN]
Responses == [kind : Kinds, items : SeqsUpTo(Items, MaxItems)]

EmptyDict == [t \in {} |-> FALSE]

ent_vars == <<titles_list, remaining_titles, results_dict, retry_count, result,
              ent_pc, calls, sleeps, last_kind, service_flags, last_request>>

(***************************************************************************)
(* {item["title"]: item["is_entity"] for item in batch_results}: a later   *)
(* item of the same title replaces the earlier one.                        *)
(***************************************************************************)
dict_of_items(items) ==
    [t \in {items[k].title : k \in 1..Len(items)} |->
        LET last == CHOOSE k \in 1..Len(items) :
                        /\ items[k].title = t
                        /\ \A j \in (k + 1)..Len(items) : items[j].title /= t
        IN  items[last].is_entity]

(***************************************************************************)
(* classify_batch: the dict it returns, and whether an exception leaves    *)
(* it.  Every failure is inside its try and is answered with {}.           *)
(***************************************************************************)
classify_batch_unguarded(resp) ==
    IF resp.kind = "ok"
    THEN [escaped |-> FALSE, dict |-> dict_of_items(resp.items)]
    ELSE [escaped |-> TRUE, dict |-> EmptyDict]

classify_batch(resp) ==
    IF resp.kind = "ok"
    THEN [escaped |-> FALSE, dict |-> dict_of_items(resp.items)]
    ELSE [escaped |-> FALSE, dict |-> EmptyDict]

(***************************************************************************)
(* dict.update, the list comprehension over remaining_titles, the default  *)
(* loop and the returned list.                                             *)
(***************************************************************************)
dict_update(d, u) ==
    [t \in DOMAIN d \cup DOMAIN u |-> IF t \in DOMAIN u THEN u[t] ELSE d[t]]

still_remaining_all(remaining, processed_titles) == remaining

still_remaining(remaining, processed_titles) ==
    SelectSeq(remaining, LAMBDA t : t \notin processed_titles)

Range(s) == {s[k] : k \in 1..Len(s)}

with_defaults_true(results, remaining) ==
    [t \in DOMAIN results \cup Range(remaining) |->
        IF t \in Range(remaining) THEN TRUE ELSE results[t]]

with_defaults(results, remaining) ==
    [t \in DOMAIN results \cup Range(remaining) |->
        IF t \in Range(remaining) THEN FALSE ELSE results[t]]

dict_get(d, t, default) == IF t \in DOMAIN d THEN d[t] ELSE default

result_list_by_key(titles, results) ==
    LET keys == SelectSeq(titles, LAMBDA t : t \in DOMAIN results)
        firsts == SelectSeq(<<"Obama", "Physics">>, LAMBDA t : t \in Range(keys))
    IN  [k \in 1..Len(firsts) |-> results[firsts[k]]]

result_list(titles, results) ==
    [k \in 1..Len(titles) |-> dict_get(results, titles[k], FALSE)]

(***************************************************************************)
(* The while loop of is_entity, one call per step.                         *)
(***************************************************************************)
loop_continues_always(remaining, retries) == remaining /= <<>>

loop_continues(remaining, retries) == remaining /= <<>> /\ retries < max_retries

Attempt ==
    /\ ent_pc = "loop"
    /\ loop_continues(remaining_titles, retry_count)
    /\ \E resp \in Responses :
         LET r == classify_batch(resp)
             left == still_remaining(remaining_titles, DOMAIN r.dict)
         IN  /\ calls' = calls + 1
             /\ last_request' = remaining_titles
             /\ last_kind' = resp.kind
             /\ service_flags' =
                  IF resp.kind = "ok"
                  THEN dict_update(service_flags, dict_of_items(resp.items))
                  ELSE service_flags
             /\ IF r.escaped
                THEN /\ ent_pc' = "raised"
                     /\ UNCHANGED <<results_dict, remaining_titles, retry_count>>
                ELSE /\ results_dict' = dict_update(results_dict, r.dict)
                     /\ remaining_titles' = left
                     /\ retry_count' = IF left /= <<>> THEN retry_count + 1
                                       ELSE retry_count
                     /\ ent_pc' = IF left /= <<>> THEN "sleep" ELSE "loop"
    /\ UNCHANGED <<titles_list, result, sleeps, pre_vars, other_vars>>

Sleep ==
    /\ ent_pc = "sleep"
    /\ sleeps' = sleeps + 1
    /\ ent_pc' = "loop"
    /\ UNCHANGED <<titles_list, remaining_titles, results_dict, retry_count,
                   result, calls, last_kind, service_flags, last_request,
                   pre_vars, other_vars>>

Finish ==
    /\ ent_pc = "loop"
    /\ ~loop_continues(remaining_titles, retry_count)
    /\ results_dict' = with_defaults(results_dict, remaining_titles)
    /\ result' = result_list(titles_list, results_dict')
    /\ ent_pc' = "done"
    /\ UNCHANGED <<titles_list, remaining_titles, retry_count, calls, sleeps,
                   last_kind, service_flags, last_request, pre_vars, other_vars>>

(***************************************************************************)
(* SpecPre: a caller hands a pair of tables to preprocess_wiki_data, then  *)
(* hands the returned pair to it again (the stored graph is preprocessed   *)
(* at build time and once more at load time).                              *)
(***************************************************************************)
PreIdle ==
    /\ nodes_df = <<>>
    /\ edges_df = <<>>
    /\ out_nodes = <<>>
    /\ out_edges = <<>>
    /\ fell_back = FALSE
    /\ pre_pc = "idle"

EntIdle ==
    /\ titles_list = <<>>
    /\ remaining_titles = <<>>
    /\ results_dict = EmptyDict
    /\ retry_count = 0
    /\ result = <<>>
    /\ ent_pc = "idle"
    /\ calls = 0
    /\ sleeps = 0
    /\ last_kind = "none"
    /\ service_flags = EmptyDict
    /\ last_request = <<>>

InitPre ==
    /\ nodes_df \in SeqsUpTo(NodeRows, MaxNodes)
    /\ edges_df \in SeqsUpTo(EdgeRows, MaxEdges)
    /\ out_nodes = <<>>
    /\ out_edges = <<>>
    /\ fell_back = FALSE
    /\ pre_pc = "input"
    /\ EntIdle
    /\ OthersIdle

Preprocess ==
    /\ pre_pc = "input"
    /\ LET r == preprocess_wiki_data(nodes_df, edges_df)
       IN  /\ out_nodes' = r.nodes
           /\ out_edges' = r.edges
           /\ fell_back' = r.fallback
    /\ pre_pc' = "once"
    /\ UNCHANGED <<nodes_df, edges_df, ent_vars, other_vars>>

Reapply ==
    /\ pre_pc = "once"
    /\ LET r == preprocess_wiki_data(out_nodes, out_edges)
       IN  /\ out_nodes' = r.nodes
           /\ out_edges' = r.edges
           /\ fell_back' = r.fallback
    /\ pre_pc' = "twice"
    /\ UNCHANGED <<nodes_df, edges_df, ent_vars, other_vars>>

NextPre == Preprocess \/ Reapply

vars == <<pre_vars, ent_vars, other_vars>>

SpecPre == InitPre /\ [][NextPre]_vars

(***************************************************************************)
(* SpecEnt: one batch of is_entity against a service that may answer       *)
(* anything.  FairSpecEnt adds that the worker keeps running: every call   *)
(* returns and every sleep ends.                                           *)
(***************************************************************************)
InitEnt ==
    /\ PreIdle
    /\ OthersIdle
    /\ titles_list \in SeqsUpTo(BatchTitles, MaxBatch)
    /\ remaining_titles = titles_list
    /\ results_dict = EmptyDict
    /\ retry_count = 0
    /\ result = <<>>
    /\ ent_pc = "loop"
    /\ calls = 0
    /\ sleeps = 0
    /\ last_kind = "none"
    /\ service_flags = EmptyDict
    /\ last_request = <<>>

NextEnt == Attempt \/ Sleep \/ Finish

SpecEnt == InitEnt /\ [][NextEnt]_vars

FairSpecEnt == SpecEnt /\ WF_vars(NextEnt)

(***************************************************************************)
(* SpecWrk: is_entity.with_concurrency(4).  Each of the workers runs one   *)
(* call of is_entity on its own batch; titles_list, results_dict,          *)
(* remaining_titles and retry_count are locals of the call.  A step is one *)
(* pass of a worker's while loop (the call, the update, the wait) or its   *)
(* return; the steps of the workers interleave in any order.  Any         *)
(* non-empty set of the workers is given a batch; the batches of two       *)
(* workers may hold the same title.  The service fails, answers for both   *)
(* titles, or answers for "Obama" only.                                    *)
(***************************************************************************)
WorkerBatch(w) == IF w % 2 = 1 THEN <<"Obama">> ELSE <<"Physics", "Obama">>

WorkerResponses ==
    {[kind |-> "api_error", items |-> <<>>],
     [kind |-> "ok", items |-> <<[title |-> "Obama", is_entity |-> FALSE]>>],
     [kind |-> "ok", items |-> <<[title |-> "Obama", is_entity |-> TRUE],
                                 [title |-> "Physics", is_entity |-> FALSE]>>]}

\* One call of is_entity run alone on a batch, given the responses of the
\* service in order: the state of its while loop after k responses, and the
\* list it returns.
RECURSIVE loop_alone(_, _, _)
loop_alone(titles, resps, k) ==
    IF k = 0 THEN [remaining |-> titles, results |-> EmptyDict, retries |-> 0]
    ELSE LET prev == loop_alone(titles, resps, k - 1)
             r == classify_batch(resps[k])
             left == still_remaining(prev.remaining, DOMAIN r.dict)
         IN  [remaining |-> left,
              results |-> dict_update(prev.results, r.dict),
              retries |-> IF left /= <<>> THEN prev.retries + 1 ELSE prev.retries]

is_entity_alone(titles, resps) ==
    LET end == loop_alone(titles, resps, Len(resps))
    IN  result_list(titles, with_defaults(end.results, end.remaining))

\* results_dict as the call of worker w sees it: a local of that call.
own_results_shared(dicts, w) ==
    LET others == CHOOSE v \in Workers : v /= w /\ \A u \in Workers \ {w} : v <= u
    IN  dict_update(dicts[w], dicts[others])

own_results(dicts, w) == dicts[w]

InitWrk ==
    /\ PreIdle
    /\ EntIdle
    /\ EmbIdle
    /\ PipeIdle
    /\ SrvIdle
    /\ \E busy \in (SUBSET Workers) \ {{}} :
          /\ w_titles_list =
                [w \in Workers |-> IF w \in busy THEN WorkerBatch(w) ELSE <<>>]
          /\ w_pc = [w \in Workers |-> IF w \in busy THEN "loop" ELSE "idle"]
    /\ w_remaining_titles = w_titles_list
    /\ w_results_dict = [w \in Workers |-> EmptyDict]
    /\ w_retry_count = [w \in Workers |-> 0]
    /\ w_result = [w \in Workers |-> <<>>]
    /\ w_responses = [w \in Workers |-> <<>>]

WorkerAttempt(w) ==
    /\ w_pc[w] = "loop"
    /\ loop_continues(w_remaining_titles[w], w_retry_count[w])
    /\ \E resp \in WorkerResponses :
         LET r == classify_batch(resp)
             left == still_remaining(w_remaining_titles[w], DOMAIN r.dict)
         IN  /\ w_responses' = [w_responses EXCEPT ![w] = Append(@, resp)]
             /\ w_results_dict' =
                  [w_results_dict EXCEPT
                      ![w] = dict_update(own_results(w_results_dict, w), r.dict)]
             /\ w_remaining_titles' = [w_remaining_titles EXCEPT ![w] = left]
             /\ w_retry_count' =
                  [w_retry_count EXCEPT ![w] = IF left /= <<>> THEN @ + 1 ELSE @]
    /\ UNCHANGED <<w_titles_list, w_result, w_pc, pre_vars, ent_vars, emb_vars,
                   pipe_vars, srv_vars>>

WorkerFinish(w) ==
    /\ w_pc[w] = "loop"
    /\ ~loop_continues(w_remaining_titles[w], w_retry_count[w])
    /\ LET final == with_defaults(own_results(w_results_dict, w),
                                  w_remaining_titles[w])
       IN  /\ w_results_dict' = [w_results_dict EXCEPT ![w] = final]
           /\ w_result' = [w_result EXCEPT ![w] = result_list(w_titles_list[w], final)]
    /\ w_pc' = [w_pc EXCEPT ![w] = "done"]
    /\ UNCHANGED <<w_titles_list, w_remaining_titles, w_retry_count, w_responses,
                   pre_vars, ent_vars, emb_vars, pipe_vars, srv_vars>>

NextWrk == \E w \in Workers : WorkerAttempt(w) \/ WorkerFinish(w)

SpecWrk == InitWrk /\ [][NextWrk]_vars

(***************************************************************************)
(* generate_title_embeddings (entity_classifier.py).  Titles are numbered; *)
(* a batch of titles is the numbers 0, 1, ... taken modulo a period, so    *)
(* that a batch may hold a title several times.  The embedding service     *)
(* answers a call with one vector per requested title, in request order,   *)
(* or the call raises.                                                     *)
(***************************************************************************)
batch_size == 20

TitlePeriods == {7, MaxTitles + 1}

TitleBatches ==
    {[k \in 1..n |-> (k - 1) % p] : n \in 0..MaxTitles, p \in TitlePeriods}

EmptyEmbedding == <<>>

service_embedding(t) == <<t, 1>>

Min(a, b) == IF a <= b THEN a ELSE b

\* titles[i:i+batch_size]
sub_batch(titles, i) == SubSeq(titles, i + 1, Min(i + batch_size, Len(titles)))

\* What one pass of the loop body appends to embeddings.
appended_one_sentinel(batch, ok) ==
    IF ok THEN [k \in 1..Len(batch) |-> service_embedding(batch[k])]
    ELSE <<EmptyEmbedding>>

appended(batch, ok) ==
    IF ok THEN [k \in 1..Len(batch) |-> service_embedding(batch[k])]
    ELSE [k \in 1..Len(batch) |-> EmptyEmbedding]

\* The next value of i: the loop goes on whatever the call did.
next_offset_abort(i, ok, n) == IF ok THEN i + batch_size ELSE n

next_offset(i, ok, n) == i + batch_size

InitEmb ==
    /\ PreIdle
    /\ EntIdle
    /\ PipeIdle
    /\ SrvIdle
    /\ WrkIdle
    /\ emb_titles \in TitleBatches
    /\ embeddings = <<>>
    /\ emb_i = 0
    /\ emb_result = <<>>
    /\ emb_pc = "loop"
    /\ emb_requests = <<>>
    /\ emb_failed = {}
    /\ emb_pauses = 0

SubBatch ==
    /\ emb_pc = "loop"
    /\ emb_i < Len(emb_titles)
    /\ \E ok \in BOOLEAN :
          /\ embeddings' = embeddings \o appended(sub_batch(emb_titles, emb_i), ok)
          /\ emb_failed' = IF ok THEN emb_failed ELSE emb_failed \cup {emb_i}
          /\ emb_i' = next_offset(emb_i, ok, Len(emb_titles))
    /\ emb_requests' = Append(emb_requests, emb_i)
    /\ emb_pauses' = IF emb_i + batch_size < Len(emb_titles)
                     THEN emb_pauses + 1 ELSE emb_pauses
    /\ UNCHANGED <<emb_titles, emb_result, emb_pc, pre_vars, ent_vars, pipe_vars,
                   srv_vars, wrk_vars>>

EmbReturn ==
    /\ emb_pc = "loop"
    /\ emb_i >= Len(emb_titles)
    /\ emb_result' = embeddings
    /\ emb_pc' = "done"
    /\ UNCHANGED <<emb_titles, embeddings, emb_i, emb_requests, emb_failed,
                   emb_pauses, pre_vars, ent_vars, pipe_vars, srv_vars, wrk_vars>>

NextEmb == SubBatch \/ EmbReturn

SpecEmb == InitEmb /\ [][NextEmb]_vars

(***************************************************************************)
(* The notebook cells of entity_classifier.py that build the two tables.   *)
(* A table is the sequence of its rows.  The corpus holds the articles     *)
(* CorpusTitles, one row each; a link may point outside the corpus.  A     *)
(* links list is a short list, or that list repeated top_k + 1 times.      *)
(* Similarities are in hundredths.                                         *)
(***************************************************************************)
top_k == 10

CorpusTitles == <<"A", "B">>
LinkTargets == {"A", "B", "X"}
RepeatCounts == {1, top_k + 1}
Vectors == {<<1, 0>>, <<-1, 0>>, <<3, 4>>}
EmbeddingValues == Vectors \cup {EmptyEmbedding}

Repeat(b, r) == [k \in 1..(Len(b) * r) |-> b[((k - 1) % Len(b)) + 1]]

LinkLists == {Repeat(b, r) : b \in SeqsUpTo(LinkTargets, MaxLinks), r \in RepeatCounts}

ArticleSummary(t) == <<"summary", t>>
ArticleText(t) == <<"text", t>>

RECURSIVE Flatten(_)
Flatten(ss) == IF ss = <<>> THEN <<>> ELSE Head(ss) \o Flatten(Tail(ss))

\* df.where(df["is_entity"]), then exclude("categories", "is_entity").
surviving_all(articles) ==
    [k \in 1..Len(articles) |-> [title |-> articles[k].title, links |-> articles[k].links]]

surviving(articles) ==
    LET kept == SelectSeq(articles, LAMBDA a : a.is_entity)
    IN  [k \in 1..Len(kept) |-> [title |-> kept[k].title, links |-> kept[k].links]]

\* df.explode("links"): one row per element; an empty list gives one row
\* with a null link.
explode(rows) ==
    Flatten([k \in 1..Len(rows) |->
        IF rows[k].links = <<>>
        THEN <<[title |-> rows[k].title, links |-> None]>>
        ELSE [j \in 1..Len(rows[k].links) |->
                 [title |-> rows[k].title, links |-> rows[k].links[j]]]])

\* left.join(right, how="semi", left_on="links", right_on="title"): the
\* left rows whose link is the title of some right row (a null matches
\* nothing).
closure_unfiltered(left, right) == left

closure_inner_join(left, right) ==
    Flatten([k \in 1..Len(left) |->
        LET matches == SelectSeq(right, LAMBDA r : r.title = left[k].links)
        IN  [j \in 1..Len(matches) |-> left[k]]])

closure_semi_join(left, right) ==
    SelectSeq(left,
        LAMBDA l : l.links /= None /\ \E k \in 1..Len(right) : right[k].title = l.links)

\* groupby("title").agg(col("links").agg_list()): one row per title, in
\* order of first appearance, its links in row order.
RECURSIVE DistinctTitles(_)
DistinctTitles(rows) ==
    IF rows = <<>> THEN <<>>
    ELSE LET t == Head(rows).title
         IN  <<t>> \o DistinctTitles(SelectSeq(Tail(rows), LAMBDA r : r.title /= t))

LinksOf(rows, t) ==
    LET mine == SelectSeq(rows, LAMBDA r : r.title = t)
    IN  [k \in 1..Len(mine) |-> mine[k].links]

group_links(rows) ==
    LET ts == DistinctTitles(rows)
    IN  [k \in 1..Len(ts) |-> [title |-> ts[k], links |-> LinksOf(rows, ts[k])]]

\* left.join(right, how="left", ...): every left row once per right row
\* with the key, or once with nulls when no right row has it.
Matches(right, key) == SelectSeq(right, LAMBDA r : r.title = key)

join_text(left, right) ==
    Flatten([k \in 1..Len(left) |->
        LET m == Matches(right, left[k].title)
        IN  IF m = <<>>
            THEN <<[title |-> left[k].title, links |-> left[k].links,
                    summary |-> None, text |-> None]>>
            ELSE [j \in 1..Len(m) |->
                    [title |-> left[k].title, links |-> left[k].links,
                     summary |-> m[j].summary, text |-> m[j].text]]])

join_embeddings(left, right) ==
    Flatten([k \in 1..Len(left) |->
        LET src == Matches(right, left[k].title)
            tgt == Matches(right, left[k].links)
            srcs == IF src = <<>> THEN <<None>>
                    ELSE [j \in 1..Len(src) |-> src[j].title_embedding]
            tgts == IF tgt = <<>> THEN <<None>>
                    ELSE [j \in 1..Len(tgt) |-> tgt[j].title_embedding]
        IN  Flatten([i \in 1..Len(srcs) |->
                [j \in 1..Len(tgts) |->
                    [title |-> left[k].title, links |-> left[k].links,
                     title_embedding |-> srcs[i], link_embedding |-> tgts[j]]]])])

\* calculate_cosine_similarity: 0.0 when an embedding is empty (or null),
\* else 1.0 - scipy's cosine distance.
Dot(a, b) == a[1] * b[1] + a[2] * b[2]

Norm(a) == CHOOSE n \in 0..5 : n * n = Dot(a, a)

cosine(a, b) == 100 - (100 * Dot(a, b)) \div (Norm(a) * Norm(b))

is_empty(emb) == emb = None \/ emb = EmptyEmbedding

calculate_cosine_similarity(src_emb, tgt_emb) ==
    IF is_empty(src_emb) \/ is_empty(tgt_emb) THEN 0
    ELSE 100 - cosine(src_emb, tgt_emb)

\* df_exploded.where(df_exploded["similarity"] > 0)
positive_signal_or_zero(similarity) == similarity >= 0

positive_signal(similarity) == similarity > 0

\* df_exploded.sort("similarity", desc=True): rows of equal similarity keep
\* their order.
RECURSIVE sort_desc(_)
sort_desc(rows) ==
    IF rows = <<>> THEN <<>>
    ELSE LET n == Len(rows)
             done == sort_desc(SubSeq(rows, 1, n - 1))
             r == rows[n]
             p == Cardinality({k \in 1..Len(done) : done[k].similarity >= r.similarity})
         IN  SubSeq(done, 1, p) \o <<r>> \o SubSeq(done, p + 1, Len(done))

\* groupby("title").agg(agg_list) and list.slice(0, 10)
top_links_unsliced(rows) ==
    LET g == group_links(rows)
    IN  [k \in 1..Len(g) |-> [title |-> g[k].title, top_links |-> g[k].links]]

top_links(rows) ==
    LET g == group_links(rows)
    IN  [k \in 1..Len(g) |->
            [title |-> g[k].title,
             top_links |-> SubSeq(g[k].links, 1, Min(top_k, Len(g[k].links)))]]

InitPipe ==
    /\ PreIdle
    /\ EntIdle
    /\ EmbIdle
    /\ SrvIdle
    /\ WrkIdle
    /\ corpus \in {[k \in 1..Len(CorpusTitles) |->
                       [title |-> CorpusTitles[k], links |-> ls[k], is_entity |-> fs[k]]] :
                   ls \in [1..Len(CorpusTitles) -> LinkLists],
                   fs \in [1..Len(CorpusTitles) -> BOOLEAN]}
    /\ df = <<>>
    /\ df_with_text = <<>>
    /\ df_exploded = <<>>
    /\ neighbors_df = <<>>
    /\ wikipedia_nodes = <<>>
    /\ wikipedia_edges = <<>>
    /\ pipe_pc = "filter"

CellFilterEntities ==
    /\ pipe_pc = "filter"
    /\ df' = surviving(corpus)
    /\ pipe_pc' = "closure"
    /\ UNCHANGED <<corpus, df_with_text, df_exploded, neighbors_df,
                   wikipedia_nodes, wikipedia_edges, pre_vars, ent_vars, emb_vars,
                   srv_vars, wrk_vars>>

CellClosure ==
    /\ pipe_pc = "closure"
    /\ df_with_text' = [k \in 1..Len(df) |->
                          [title |-> df[k].title,
                           summary |-> ArticleSummary(df[k].title),
                           text |-> ArticleText(df[k].title)]]
    /\ df' = closure_semi_join(explode(df), explode(df))
    /\ pipe_pc' = "group"
    /\ UNCHANGED <<corpus, df_exploded, neighbors_df,
                   wikipedia_nodes, wikipedia_edges, pre_vars, ent_vars, emb_vars,
                   srv_vars, wrk_vars>>

CellGroup ==
    /\ pipe_pc = "group"
    /\ df' = join_text(group_links(df), df_with_text)
    /\ pipe_pc' = "embed"
    /\ UNCHANGED <<corpus, df_with_text, df_exploded, neighbors_df,
                   wikipedia_nodes, wikipedia_edges, pre_vars, ent_vars, emb_vars,
                   srv_vars, wrk_vars>>

CellEmbed ==
    /\ pipe_pc = "embed"
    /\ \E embs \in [1..Len(df_with_text) -> EmbeddingValues] :
          df_with_text' = [k \in 1..Len(df_with_text) |->
                              [title |-> df_with_text[k].title,
                               summary |-> df_with_text[k].summary,
                               text |-> df_with_text[k].text,
                               title_embedding |-> embs[k]]]
    /\ pipe_pc' = "candidates"
    /\ UNCHANGED <<corpus, df, df_exploded, neighbors_df,
                   wikipedia_nodes, wikipedia_edges, pre_vars, ent_vars, emb_vars,
                   srv_vars, wrk_vars>>

CellCandidates ==
    /\ pipe_pc = "candidates"
    /\ df_exploded' = join_embeddings(explode(df), df_with_text)
    /\ pipe_pc' = "similarity"
    /\ UNCHANGED <<corpus, df, df_with_text, neighbors_df,
                   wikipedia_nodes, wikipedia_edges, pre_vars, ent_vars, emb_vars,
                   srv_vars, wrk_vars>>

CellSimilarity ==
    /\ pipe_pc = "similarity"
    /\ df_exploded' = [k \in 1..Len(df_exploded) |->
                          [title |-> df_exploded[k].title,
                           links |-> df_exploded[k].links,
                           title_embedding |-> df_exploded[k].title_embedding,
                           link_embedding |-> df_exploded[k].link_embedding,
                           similarity |-> calculate_cosine_similarity(
                                              df_exploded[k].title_embedding,
                                              df_exploded[k].link_embedding)]]
    /\ pipe_pc' = "positive"
    /\ UNCHANGED <<corpus, df, df_with_text, neighbors_df,
                   wikipedia_nodes, wikipedia_edges, pre_vars, ent_vars, emb_vars,
                   srv_vars, wrk_vars>>

CellFilterPositive ==
    /\ pipe_pc = "positive"
    /\ df_exploded' = SelectSeq(df_exploded, LAMBDA r : positive_signal(r.similarity))
    /\ pipe_pc' = "topk"
    /\ UNCHANGED <<corpus, df, df_with_text, neighbors_df,
                   wikipedia_nodes, wikipedia_edges, pre_vars, ent_vars, emb_vars,
                   srv_vars, wrk_vars>>

CellTopK ==
    /\ pipe_pc = "topk"
    /\ neighbors_df' = top_links(sort_desc(df_exploded))
    /\ pipe_pc' = "write_nodes"
    /\ UNCHANGED <<corpus, df, df_with_text, df_exploded,
                   wikipedia_nodes, wikipedia_edges, pre_vars, ent_vars, emb_vars,
                   srv_vars, wrk_vars>>

CellWriteNodes ==
    /\ pipe_pc = "write_nodes"
    /\ wikipedia_nodes' = [k \in 1..Len(df_with_text) |->
                              [id |-> df_with_text[k].title,
                               summary |-> df_with_text[k].summary,
                               text |-> df_with_text[k].text]]
    /\ pipe_pc' = "write_edges"
    /\ UNCHANGED <<corpus, df, df_with_text, df_exploded, neighbors_df,
                   wikipedia_edges, pre_vars, ent_vars, emb_vars, srv_vars, wrk_vars>>

CellWriteEdges ==
    /\ pipe_pc = "write_edges"
    /\ wikipedia_edges' = [k \in 1..Len(df_exploded) |->
                              [source |-> df_exploded[k].title,
                               target |-> df_exploded[k].links,
                               similarity |-> df_exploded[k].similarity]]
    /\ pipe_pc' = "written"
    /\ UNCHANGED <<corpus, df, df_with_text, df_exploded, neighbors_df,
                   wikipedia_nodes, pre_vars, ent_vars, emb_vars, srv_vars, wrk_vars>>

NextPipe ==
    \/ CellFilterEntities
    \/ CellClosure
    \/ CellGroup
    \/ CellEmbed
    \/ CellCandidates
    \/ CellSimilarity
    \/ CellFilterPositive
    \/ CellTopK
    \/ CellWriteNodes
    \/ CellWriteEdges

SpecPipe == InitPipe /\ [][NextPipe]_vars

(***************************************************************************)
(* SpecTopK: the positive-signal filter and the top-K cell applied to a    *)
(* table df_exploded as the similarity cell leaves it, with more candidate *)
(* rows per source than top_k.  Source "A" has n candidate rows, one per   *)
(* target, in the order links lists them; the order is a stride through    *)
(* the targets, so the similarities come ascending, descending or mixed.   *)
(* Source "B" has up to two rows around them.  Embeddings are opaque here: *)
(* the two cells read only title, links and similarity.                    *)
(***************************************************************************)
TargetTitles ==
    <<"T01", "T02", "T03", "T04", "T05", "T06", "T07", "T08",
      "T09", "T10", "T11", "T12", "T13", "T14", "T15", "T16">>

Strides == {1, 3, 5, 16}

ScoreShifts == {0, 4}

OtherSourceRows == 0..2

stride_target(k, s) == (k * s) % (Len(TargetTitles) + 1)

opaque_embedding(t) == <<"embedding", t>>

candidate_row(src, v, similarity) ==
    [title |-> src, links |-> TargetTitles[v],
     title_embedding |-> opaque_embedding(src),
     link_embedding |-> opaque_embedding(TargetTitles[v]),
     similarity |-> similarity]

candidate_table(n, s, shift, m) ==
    (IF m >= 1 THEN <<candidate_row("B", 2, 2)>> ELSE <<>>)
    \o [k \in 1..n |->
           candidate_row("A", stride_target(k, s), stride_target(k, s) - shift)]
    \o (IF m >= 2 THEN <<candidate_row("B", 9, 9)>> ELSE <<>>)

InitTopK ==
    /\ PreIdle
    /\ EntIdle
    /\ EmbIdle
    /\ SrvIdle
    /\ WrkIdle
    /\ corpus = <<>>
    /\ df = <<>>
    /\ df_with_text = <<>>
    /\ df_exploded \in {candidate_table(n, s, shift, m) :
                           n \in 0..MaxCandidates, s \in Strides,
                           shift \in ScoreShifts, m \in OtherSourceRows}
    /\ neighbors_df = <<>>
    /\ wikipedia_nodes = <<>>
    /\ wikipedia_edges = <<>>
    /\ pipe_pc = "positive"

NextTopK == CellFilterPositive \/ CellTopK

SpecTopK == InitTopK /\ [][NextTopK]_vars

(***************************************************************************)
(* The server (backend/main.py).  The two parquet files hold rows or are   *)
(* missing; the module-level code loads them once at start-up, keeps the   *)
(* edges above the similarity threshold and preprocesses the pair.         *)
(* Similarities are in hundredths, so 0.42 is 42.                          *)
(***************************************************************************)
similarity_threshold == 42

SrvSimilarities == {similarity_threshold, similarity_threshold + 1}

SrvEdgeIds == {"A", "B", None}

SrvNodeRows == {[id |-> i, summary |-> "s1", text |-> "t1"] : i \in NodeIds}

SrvEdgeRows == [source : SrvEdgeIds, target : SrvEdgeIds, similarity : SrvSimilarities]

above_threshold_or_equal(e) == e.similarity >= similarity_threshold

above_threshold(e) == e.similarity > similarity_threshold

filtered_wiki_edges(edges) == SelectSeq(edges, above_threshold)

InitSrv ==
    /\ PreIdle
    /\ EntIdle
    /\ EmbIdle
    /\ PipeIdle
    /\ WrkIdle
    /\ wiki_nodes_exists \in BOOLEAN
    /\ wiki_edges_exists \in BOOLEAN
    /\ nodes_parquet \in IF wiki_nodes_exists
                          THEN SeqsUpTo(SrvNodeRows, MaxNodes) ELSE {<<>>}
    /\ edges_parquet \in IF wiki_edges_exists
                          THEN SeqsUpTo(SrvEdgeRows, MaxEdges) ELSE {<<>>}
    /\ nodes_has_text \in IF wiki_nodes_exists THEN BOOLEAN ELSE {TRUE}
    /\ edges_has_source \in IF wiki_edges_exists THEN BOOLEAN ELSE {TRUE}
    /\ wiki_nodes_df = NoneTable
    /\ wiki_edges_df = NoneTable
    /\ load_fell_back = FALSE
    /\ nodes_response = NoResponse
    /\ edges_response = NoResponse
    /\ srv_pc = "start"

(***************************************************************************)
(* preprocess_wiki_data on tables that may lack a column.  Without "text"  *)
(* the node loop raises KeyError at its first row; without "source" the    *)
(* edge loop raises KeyError at range(len(edges_dict["source"])).  Both    *)
(* land in the except branch, which returns the tables given.  A table     *)
(* built by a successful call has all its columns.                         *)
(***************************************************************************)
key_error(nodes, nodes_complete, edges_complete) ==
    (~nodes_complete /\ nodes /= <<>>) \/ ~edges_complete

preprocess_tables(nodes, nodes_complete, edges, edges_complete) ==
    LET r == IF key_error(nodes, nodes_complete, edges_complete)
             THEN [nodes |-> nodes, edges |-> edges, fallback |-> TRUE]
             ELSE preprocess_wiki_data(nodes, edges)
    IN  [nodes |-> Table(r.nodes, ~r.fallback \/ nodes_complete),
         edges |-> Table(r.edges, ~r.fallback \/ edges_complete),
         fallback |-> r.fallback]

(***************************************************************************)
(* Lines 164-186.  loaded = FALSE stands for an exception inside the try   *)
(* other than those preprocess_wiki_data absorbs (a read that fails).      *)
(***************************************************************************)
Load ==
    /\ srv_pc = "start"
    /\ IF wiki_nodes_exists /\ wiki_edges_exists
       THEN \E loaded \in BOOLEAN :
               IF loaded
               THEN LET r == preprocess_tables(nodes_parquet, nodes_has_text,
                                               filtered_wiki_edges(edges_parquet),
                                               edges_has_source)
                    IN  /\ wiki_nodes_df' = r.nodes
                        /\ wiki_edges_df' = r.edges
                        /\ load_fell_back' = r.fallback
               ELSE /\ wiki_nodes_df' = NoneTable
                    /\ wiki_edges_df' = NoneTable
                    /\ load_fell_back' = FALSE
       ELSE /\ wiki_nodes_df' = NoneTable
            /\ wiki_edges_df' = NoneTable
            /\ load_fell_back' = FALSE
    /\ srv_pc' = "up"
    /\ UNCHANGED <<wiki_nodes_exists, wiki_edges_exists, nodes_parquet, edges_parquet,
                   nodes_has_text, edges_has_source,
                   nodes_response, edges_response, pre_vars, ent_vars, emb_vars,
                   pipe_vars, wrk_vars>>

(***************************************************************************)
(* GET /wikipedia/nodes and GET /wikipedia/edges: empty columns when the   *)
(* table is None or when select raises because the table lacks one of the  *)
(* three columns, the table otherwise.                                     *)
(***************************************************************************)
response(table) ==
    IF table.is_none THEN [status |-> "unavailable", rows |-> <<>>]
    ELSE IF ~table.complete THEN [status |-> "error", rows |-> <<>>]
    ELSE [status |-> "ok", rows |-> table.rows]

wiki_nodes ==
    /\ srv_pc = "up"
    /\ nodes_response' = response(wiki_nodes_df)
    /\ UNCHANGED <<wiki_nodes_exists, wiki_edges_exists, nodes_parquet, edges_parquet,
                   nodes_has_text, edges_has_source,
                   wiki_nodes_df, wiki_edges_df, load_fell_back, edges_response,
                   srv_pc, pre_vars, ent_vars, emb_vars, pipe_vars,
                   wrk_vars>>

wiki_edges ==
    /\ srv_pc = "up"
    /\ edges_response' = response(wiki_edges_df)
    /\ UNCHANGED <<wiki_nodes_exists, wiki_edges_exists, nodes_parquet, edges_parquet,
                   nodes_has_text, edges_has_source,
                   wiki_nodes_df, wiki_edges_df, load_fell_back, nodes_response,
                   srv_pc, pre_vars, ent_vars, emb_vars, pipe_vars,
                   wrk_vars>>

NextSrv == Load \/ wiki_nodes \/ wiki_edges

SpecSrv == InitSrv /\ [][NextSrv]_vars

(***************************************************************************)
(* Properties of preprocess_wiki_data, checked under SpecPre.              *)
(***************************************************************************)
Returned == pre_pc \in {"once", "twice"}

Succeeded == Returned /\ ~fell_back

Endpoints(e) == {e.source, e.target}

NonLoopInput(i) == edges_df[i].source /= edges_df[i].target

NoSelfLoop(rows) == \A k \in 1..Len(rows) : rows[k].source /= rows[k].target

OnePerPair(rows) ==
    \A i, j \in 1..Len(rows) : i /= j => Endpoints(rows[i]) /= Endpoints(rows[j])

AllConnected(nrows, erows) ==
    \A k \in 1..Len(nrows) :
        \E j \in 1..Len(erows) : nrows[k].id \in Endpoints(erows[j])

OnlySelfLoops(id) ==
    /\ \E j \in 1..Len(edges_df) : id \in Endpoints(edges_df[j])
    /\ \A j \in 1..Len(edges_df) :
          id \in Endpoints(edges_df[j]) => ~NonLoopInput(j)

FirstNodeWithId(id) ==
    CHOOSE k \in 1..Len(nodes_df) :
        /\ nodes_df[k].id = id
        /\ \A j \in 1..(k - 1) : nodes_df[j].id /= id

DistinctIds(nrows) ==
    \A i, j \in 1..Len(nrows) : i /= j => nrows[i].id /= nrows[j].id

KeepsFirstNode(nrows) ==
    \A k \in 1..Len(nrows) : nrows[k] = nodes_df[FirstNodeWithId(nrows[k].id)]

\* Input edge i is the first non-self-loop edge of its unordered pair and a
\* later non-self-loop edge has the same pair.
FirstOfSeveral(i) ==
    /\ NonLoopInput(i)
    /\ \A j \in 1..(i - 1) :
          NonLoopInput(j) => Endpoints(edges_df[j]) /= Endpoints(edges_df[i])
    /\ \E j \in (i + 1)..Len(edges_df) :
          NonLoopInput(j) /\ Endpoints(edges_df[j]) = Endpoints(edges_df[i])

KeepsFirstEdge(erows) ==
    \A i \in 1..Len(edges_df) :
        FirstOfSeveral(i) =>
            LET same == {k \in 1..Len(erows) :
                            Endpoints(erows[k]) = Endpoints(edges_df[i])}
            IN  /\ Cardinality(same) = 1
                /\ \A k \in same : erows[k] = edges_df[i]

\* C1: applying preprocess_wiki_data to the pair a successful application
\* returned gives back the same node sequence and the same edge sequence.
C1_Idempotent ==
    [][pre_pc = "once" /\ ~fell_back
          => out_nodes' = out_nodes /\ out_edges' = out_edges]_vars

C1_Witness ==
    /\ pre_pc = "twice"
    /\ ~fell_back
    /\ out_edges /= <<>>
    /\ out_nodes /= <<>>
    /\ Len(out_edges) < Len(edges_df)
    /\ Len(out_nodes) < Len(nodes_df)

Done == ent_pc = "done"

NeverReturned(t) == t \notin DOMAIN service_flags

\* C7: the returned list has one element per title of the batch, and its
\* i-th element is the flag of the i-th title: the flag the service returned
\* for that title, or false when no attempt returned it.
C7_OneFlagPerTitleInOrder ==
    Done =>
        /\ Len(result) = Len(titles_list)
        /\ \A i \in 1..Len(titles_list) :
              result[i] = dict_get(service_flags, titles_list[i], FALSE)

C7_Witness ==
    /\ Done
    /\ Len(titles_list) >= 2
    /\ titles_list[1] /= titles_list[2]
    /\ result[1] = FALSE
    /\ result[2] = TRUE
    /\ calls >= 2

\* C8: a batch issues at most 3 classification calls, issues a call only
\* while a title is pending (none for an empty batch), has issued exactly 3
\* when it ends with a title no attempt returned, and always ends.
C8_BoundedCallsAndTermination ==
    /\ [](calls <= 3)
    /\ [](titles_list = <<>> => calls = 0)
    /\ [][calls' /= calls => remaining_titles /= <<>>]_vars
    /\ []((Done /\ \E t \in Range(titles_list) : NeverReturned(t)) => calls = 3)
    /\ <>Done

C8_Witness ==
    /\ Done
    /\ calls = 3
    /\ titles_list = <<"Obama", "Physics">>
    /\ "Obama" \in DOMAIN service_flags
    /\ NeverReturned("Physics")
    /\ result = <<TRUE, FALSE>>

\* C9: a title of the batch that no attempt returned is still pending when
\* the retries are exhausted and has flag false in the result.
C9_PendingDefaultsToFalse ==
    Done =>
        \A i \in 1..Len(titles_list) :
            NeverReturned(titles_list[i]) =>
                /\ titles_list[i] \in Range(remaining_titles)
                /\ titles_list[i] \in DOMAIN results_dict
                /\ results_dict[titles_list[i]] = FALSE
                /\ result[i] = FALSE

C9_Witness ==
    /\ Done
    /\ retry_count = max_retries
    /\ \E i \in 1..Len(titles_list) : NeverReturned(titles_list[i])
    /\ \E j \in 1..Len(titles_list) : result[j] = TRUE
    /\ last_kind = "ok"

\* C10: an attempt whose call raises or whose response does not parse lets
\* nothing escape is_entity, leaves the result map and the pending titles as
\* they were, and is counted by the retry counter.
C10_FailedAttemptAbsorbed ==
    [][calls' = calls + 1 /\ last_kind' /= "ok"
          => /\ ent_pc' /= "raised"
             /\ results_dict' = results_dict
             /\ remaining_titles' = remaining_titles
             /\ retry_count' = retry_count + 1]_vars

C10_Witness ==
    /\ ent_pc = "sleep"
    /\ last_kind \in {"api_error", "bad_json", "bad_item"}
    /\ calls = 2
    /\ results_dict /= EmptyDict
    /\ remaining_titles /= <<>>

(***************************************************************************)
(* Properties of generate_title_embeddings, checked under SpecEmb.         *)
(***************************************************************************)
EmbDone == emb_pc = "done"

\* Offset of the sub-batch that holds position i (positions count from 1).
OffsetOf(i) == ((i - 1) \div batch_size) * batch_size

SubBatchOffsets == {o \in 0..Len(emb_titles) : o % batch_size = 0 /\ o < Len(emb_titles)}

\* C13: the returned list has exactly one element per input title, and
\* element i is the embedding of input title i or the empty sentinel,
\* whichever sub-batch calls succeed or fail.
C13_OneEmbeddingPerTitleInOrder ==
    EmbDone =>
        /\ Len(emb_result) = Len(emb_titles)
        /\ \A i \in 1..Len(emb_titles) :
              emb_result[i] \in {service_embedding(emb_titles[i]), EmptyEmbedding}

C13_Witness ==
    /\ EmbDone
    /\ Len(emb_titles) = MaxTitles
    /\ emb_failed = {0, 2 * batch_size}
    /\ emb_titles[batch_size + 1] = emb_titles[batch_size + 8]
    /\ emb_result[batch_size + 1] = service_embedding(emb_titles[batch_size + 1])

\* C14: exactly the positions of a failed sub-batch hold the empty sentinel,
\* every sub-batch is requested exactly once and in order, also after a
\* failed one, and the positions of the other sub-batches hold the
\* embeddings of their titles.
C14_FailedSubBatchOnly ==
    EmbDone =>
        /\ Len(emb_result) = Len(emb_titles)
        /\ \A i \in 1..Len(emb_titles) :
              IF OffsetOf(i) \in emb_failed
              THEN emb_result[i] = EmptyEmbedding
              ELSE emb_result[i] = service_embedding(emb_titles[i])
        /\ Len(emb_requests) = Cardinality(SubBatchOffsets)
        /\ \A k \in 1..Len(emb_requests) : emb_requests[k] = (k - 1) * batch_size

C14_Witness ==
    /\ EmbDone
    /\ Len(emb_titles) > 2 * batch_size
    /\ emb_failed = {batch_size}
    /\ emb_result[batch_size] /= EmptyEmbedding
    /\ emb_result[batch_size + 1] = EmptyEmbedding
    /\ emb_result[2 * batch_size] = EmptyEmbedding
    /\ emb_result[2 * batch_size + 1] /= EmptyEmbedding
    /\ Len(emb_requests) = 3

(***************************************************************************)
(* Further properties of is_entity, checked under SpecEnt.                 *)
(***************************************************************************)
\* C18: every call after the first is handed exactly the titles of the
\* batch that no earlier attempt returned, in batch order (so a title an
\* earlier attempt returned is never sent again).
C18_RetrySendsOnlyPending ==
    [][calls' = calls + 1
          => last_request' =
                SelectSeq(titles_list, LAMBDA t : t \notin DOMAIN service_flags)]_vars

C18_Witness ==
    /\ calls = 2
    /\ titles_list = <<"Physics", "Obama">>
    /\ last_request = <<"Obama">>
    /\ "Physics" \in DOMAIN service_flags

(***************************************************************************)
(* Properties of the construction pipeline, checked under SpecPipe.        *)
(***************************************************************************)
Written == pipe_pc = "written"

SurvivingTitles == {corpus[k].title : k \in {j \in 1..Len(corpus) : corpus[j].is_entity}}

EmbeddingOfTitle(t) ==
    LET k == CHOOSE j \in 1..Len(df_with_text) : df_with_text[j].title = t
    IN  df_with_text[k].title_embedding

OutDegree(rows, s) == Cardinality({k \in 1..Len(rows) : rows[k].source = s})

Occurrences(list, x) == Cardinality({k \in 1..Len(list) : list[k] = x})

CandidateRows(s, t) ==
    Cardinality({k \in 1..Len(df_exploded) :
                    df_exploded[k].title = s /\ df_exploded[k].links = t})

HasSimilarity ==
    pipe_pc \in {"positive", "topk", "write_nodes", "write_edges", "written"}

\* C11: in the edge table the pipeline writes, every source id has at most
\* 10 outgoing edges.
C11_AtMostTenEdgesPerSource ==
    Written =>
        \A k \in 1..Len(corpus) : OutDegree(wikipedia_edges, corpus[k].title) <= 10

\* C12: a candidate edge whose source or target embedding is the empty
\* sentinel gets similarity 0, no written edge has such an endpoint, and
\* every written edge has similarity > 0.
C12_EmptyEmbeddingFilteredOut ==
    /\ HasSimilarity =>
          \A k \in 1..Len(df_exploded) :
              (df_exploded[k].title_embedding = EmptyEmbedding
                  \/ df_exploded[k].link_embedding = EmptyEmbedding)
              => df_exploded[k].similarity = 0
    /\ Written =>
          \A k \in 1..Len(wikipedia_edges) :
              /\ wikipedia_edges[k].similarity > 0
              /\ EmbeddingOfTitle(wikipedia_edges[k].source) /= EmptyEmbedding
              /\ EmbeddingOfTitle(wikipedia_edges[k].target) /= EmptyEmbedding

C12_Witness ==
    /\ Written
    /\ wikipedia_edges /= <<>>
    /\ \E k \in 1..Len(df) :
          /\ EmbeddingOfTitle(df[k].title) = EmptyEmbedding
          /\ \E j \in 1..Len(df[k].links) :
                EmbeddingOfTitle(df[k].links[j]) /= EmptyEmbedding

\* C17: a title whose entity flag is false is no node id of the written
\* nodes table and neither source nor target of a written edge.
C17_NonEntitiesExcluded ==
    Written =>
        \A k \in 1..Len(corpus) :
            ~corpus[k].is_entity =>
                /\ \A j \in 1..Len(wikipedia_nodes) :
                      wikipedia_nodes[j].id /= corpus[k].title
                /\ \A j \in 1..Len(wikipedia_edges) :
                      /\ wikipedia_edges[j].source /= corpus[k].title
                      /\ wikipedia_edges[j].target /= corpus[k].title

C17_Witness ==
    /\ Written
    /\ wikipedia_edges /= <<>>
    /\ \E k, j \in 1..Len(corpus) :
          /\ ~corpus[k].is_entity
          /\ corpus[k].links /= <<>>
          /\ corpus[j].is_entity
          /\ Occurrences(corpus[j].links, corpus[k].title) > 0

\* C19 as stated: after the closure filter every retained (title, link) row
\* has a link that is the id of a surviving article other than the row's
\* own title.
C19_LinkIsAnotherSurvivor ==
    pipe_pc = "group" =>
        \A k \in 1..Len(df) :
            df[k].links \in SurvivingTitles /\ df[k].links /= df[k].title

\* C19 amended: after the closure filter every retained (title, link) row
\* has a link that is the id of a surviving article, possibly the row's own
\* title; rows whose link is outside the surviving corpus are dropped.
C19_LinkIsSurvivor ==
    pipe_pc = "group" =>
        \A k \in 1..Len(df) :
            df[k].title \in SurvivingTitles /\ df[k].links \in SurvivingTitles

C19_Witness ==
    /\ pipe_pc = "group"
    /\ \E k \in 1..Len(df) : df[k].links = df[k].title
    /\ \E k \in 1..Len(corpus) :
          /\ corpus[k].is_entity
          /\ Occurrences(corpus[k].links, "X") > 0
    /\ \E k \in 1..Len(corpus) : ~corpus[k].is_entity

\* C20: with unique article ids, the candidate rows (s, t) that reach the
\* similarity computation are as many as the occurrences of t in the links
\* of article s, for surviving s and t, and there is no other row.
C20_CandidateRowsMatchLinks ==
    pipe_pc = "similarity" =>
        /\ \A k \in 1..Len(corpus) : \A t \in SurvivingTitles :
              corpus[k].is_entity =>
                  CandidateRows(corpus[k].title, t) = Occurrences(corpus[k].links, t)
        /\ \A k \in 1..Len(df_exploded) :
              /\ df_exploded[k].title \in SurvivingTitles
              /\ df_exploded[k].links \in SurvivingTitles

C20_Witness ==
    /\ pipe_pc = "similarity"
    /\ \E k \in 1..Len(corpus) : \E t \in SurvivingTitles :
          /\ corpus[k].is_entity
          /\ t /= corpus[k].title
          /\ CandidateRows(corpus[k].title, t) >= 2
          /\ Occurrences(corpus[k].links, "X") > 0
    /\ \A k \in 1..Len(corpus) : corpus[k].links /= <<>>

(***************************************************************************)
(* The error fallback of preprocess_wiki_data, checked under SpecPre.      *)
(***************************************************************************)
Applies == pre_pc' /= pre_pc

\* C15: every application of preprocess_wiki_data returns (no exception
\* escapes it); when a step inside it failed, the returned pair is exactly
\* the (nodes, edges) pair it was given; and, failed or not, the tables it
\* was given hold the same rows afterwards.
C15_FallbackReturnsGivenPair ==
    [][Applies =>
          /\ pre_pc' \in {"once", "twice"}
          /\ nodes_df' = nodes_df /\ edges_df' = edges_df
          /\ fell_back' =>
                IF pre_pc = "input"
                THEN out_nodes' = nodes_df /\ out_edges' = edges_df
                ELSE out_nodes' = out_nodes /\ out_edges' = out_edges]_vars

\* C15 witness: the call failed on a row with a null endpoint after it had
\* already skipped a self-loop and met a duplicate node id, and the pair
\* returned is the pair given.
C15_Witness ==
    /\ pre_pc = "once" /\ fell_back
    /\ Len(edges_df) >= 2 /\ is_self_loop(edges_df[1])
    /\ ~sortable(edges_df[2].source, edges_df[2].target)
    /\ Len(nodes_df) >= 2 /\ nodes_df[1].id = nodes_df[2].id
    /\ out_nodes = nodes_df /\ out_edges = edges_df

(***************************************************************************)
(* Properties of the served graph, checked under SpecSrv.                  *)
(***************************************************************************)
Available == srv_pc = "up" /\ ~wiki_nodes_df.is_none /\ ~wiki_edges_df.is_none

Served ==
    /\ Available
    /\ nodes_response.status = "ok"
    /\ edges_response.status = "ok"

AboveThreshold(rows) ==
    \A k \in 1..Len(rows) : rows[k].similarity > similarity_threshold

CleanGraph(nrows, erows) ==
    /\ NoSelfLoop(erows)
    /\ OnePerPair(erows)
    /\ AllConnected(nrows, erows)
    /\ AboveThreshold(erows)

Selected == pipe_pc = "write_nodes"

CandidatesOf(t) == SelectSeq(df_exploded, LAMBDA r : r.title = t)

DistinctSimilarities(rows) ==
    \A i, j \in 1..Len(rows) : i /= j => rows[i].similarity /= rows[j].similarity

NeighborsOf(t) ==
    LET mine == SelectSeq(neighbors_df, LAMBDA r : r.title = t)
    IN  IF mine = <<>> THEN <<>> ELSE mine[1].top_links

SimilarityOf(t, link) ==
    LET c == SelectSeq(CandidatesOf(t), LAMBDA r : r.links = link)
    IN  c[1].similarity

\* C21: after the top-K cell, for every source whose n candidate rows (the
\* rows left by the positive-signal filter) have distinct similarities, the
\* selection keeps exactly min(n, 10) links, each the link of a candidate
\* row with similarity > 0, ordered by similarity descending, and every
\* candidate left out has a lower similarity than every link kept.
C21_TopKKeepsHighestDescending ==
    Selected =>
      \A t \in {"A", "B"} :
        LET cand == CandidatesOf(t)
            kept == NeighborsOf(t)
        IN  DistinctSimilarities(cand) =>
              /\ Len(kept) = Min(Len(cand), 10)
              /\ \A i \in 1..Len(kept) :
                    /\ \E k \in 1..Len(cand) : cand[k].links = kept[i]
                    /\ SimilarityOf(t, kept[i]) > 0
              /\ \A i, j \in 1..Len(kept) :
                    i < j => SimilarityOf(t, kept[i]) > SimilarityOf(t, kept[j])
              /\ \A k \in 1..Len(cand) :
                    (\A i \in 1..Len(kept) : kept[i] /= cand[k].links)
                      => \A i \in 1..Len(kept) :
                            cand[k].similarity < SimilarityOf(t, kept[i])

\* C21 witness: source "A" had more than ten candidate rows after the
\* filter, listed with the lowest similarity first, and ten were kept.
C21_Witness ==
    /\ Selected
    /\ Len(CandidatesOf("A")) > 10
    /\ CandidatesOf("A")[1].similarity < CandidatesOf("A")[2].similarity
    /\ Len(NeighborsOf("A")) = 10
    /\ Len(CandidatesOf("B")) = 2

(***************************************************************************)
(* The backoff wait of is_entity, checked under SpecEnt.                   *)
(***************************************************************************)
\* C22: in one batch every backoff wait lies between two consecutive
\* classification calls, so a finished batch that made calls has waited
\* exactly once less than it has called: no wait follows its last attempt.
C22_WaitOnlyBetweenCalls ==
    (ent_pc = "done" /\ calls > 0) => sleeps = calls - 1

(***************************************************************************)
(* The worker pool of is_entity, checked under SpecWrk.                    *)
(***************************************************************************)
LocalsOf(w) ==
    <<w_titles_list[w], w_remaining_titles[w], w_results_dict[w],
      w_retry_count[w], w_result[w], w_pc[w], w_responses[w]>>

\* C23: every step of the pool changes the locals of one worker only, and
\* when a worker has returned, its result list is the list is_entity
\* returns when run alone on that worker's batch with the responses that
\* worker received, whatever the other workers did in between.
C23_WorkersIndependent ==
    [][/\ \E w \in Workers :
             \A v \in Workers \ {w} : LocalsOf(v)' = LocalsOf(v)
       /\ \A w \in Workers :
             w_pc'[w] = "done" =>
                w_result'[w] = is_entity_alone(w_titles_list'[w], w_responses'[w])]_vars

\* C23 witness: all four workers have returned, two workers with the same
\* batch returned different lists, and one of them used all its attempts.
C23_Witness ==
    /\ \A w \in Workers : w_pc[w] = "done"
    /\ w_result[1] /= w_result[3]
    /\ w_result[2] /= w_result[4]
    /\ Len(w_responses[2]) = max_retries
    /\ Len(w_responses[4]) = 1

(***************************************************************************)
(* The result map of is_entity across attempts, checked under SpecEnt.     *)
(***************************************************************************)
\* C24: once the result map holds a flag for a title of the batch, no later
\* step of the batch changes that flag: the final flag is the flag of the
\* first attempt that returned the title.
C24_FirstFlagIsFinal ==
    [][\A t \in Range(titles_list) :
          t \in DOMAIN results_dict =>
             /\ t \in DOMAIN results_dict'
             /\ results_dict'[t] = results_dict[t]]_vars

(***************************************************************************)
(* Further properties of preprocess_wiki_data, checked under SpecPre.      *)
(***************************************************************************)
NodeIdsOf(rows) == {rows[k].id : k \in 1..Len(rows)}

\* C25: in every returned pair both endpoints of every edge are ids of
\* returned nodes, also when an input edge names an id that no input node
\* has.
C25_NoDanglingEdge ==
    Returned =>
        \A k \in 1..Len(out_edges) :
            /\ out_edges[k].source \in NodeIdsOf(out_nodes)
            /\ out_edges[k].target \in NodeIdsOf(out_nodes)

RECURSIVE IsSubsequence(_, _)
IsSubsequence(a, b) ==
    IF a = <<>> THEN TRUE
    ELSE IF b = <<>> THEN FALSE
    ELSE IF Head(a) = Head(b) THEN IsSubsequence(Tail(a), Tail(b))
    ELSE IsSubsequence(a, Tail(b))

\* C26: the returned edges are a subsequence of the edges given and the
\* returned nodes a subsequence of the nodes given: rows are only removed,
\* each kept row has its source, target and similarity (its id, summary and
\* text) unchanged, and the kept rows keep their relative order.
C26_OnlyRemovesRows ==
    Returned =>
        /\ IsSubsequence(out_edges, edges_df)
        /\ IsSubsequence(out_nodes, nodes_df)

\* C26 witness: a successful call removed a self-loop and a duplicate node
\* and returned the remaining edge and node.
C26_Witness ==
    /\ Succeeded /\ pre_pc = "once"
    /\ Len(edges_df) = 2 /\ Len(out_edges) = 1
    /\ is_self_loop(edges_df[1])
    /\ Len(nodes_df) = 2 /\ Len(out_nodes) = 1
    /\ nodes_df[1].id = nodes_df[2].id /\ nodes_df[1] /= nodes_df[2]

(***************************************************************************)
(* Availability of the two served tables, checked under SpecSrv.           *)
(***************************************************************************)
BothAnswered == nodes_response.status /= "none" /\ edges_response.status /= "none"

\* C27: after start-up the node table and the edge table are both held or
\* both None, and once both endpoints have answered, either both answers
\* carry their table or neither does.
C27_BothOrNeither ==
    srv_pc = "up" =>
        /\ wiki_nodes_df.is_none = wiki_edges_df.is_none
        /\ BothAnswered =>
              ((nodes_response.status = "ok") = (edges_response.status = "ok"))

====
